---------------------------- MODULE Spec2Model ----------------------------
(***************************************************************************)
(* A model of pyproc.py: the /proc decoders, the read-only dictionary, the *)
(* per-file parsers, the Process snapshot constructor and Process.list.    *)
(*                                                                         *)
(* Python text is modelled by TLA+ strings.  Python values that may be of  *)
(* several types are tagged records: [int |-> n], [str |-> s],             *)
(* [none |-> TRUE]; a call returns [ok |-> value] or [raise |-> exception].*)
(***************************************************************************)
EXTENDS Integers, Sequences, FiniteSets, TLC

VARIABLES
    hex,         \* argument handed to a primitive decoder
    decoded,     \* which decoder ran and what the call produced
    rodict,      \* the items of one RODict instance
    constructed, \* the items it was constructed with
    lastCall,    \* the last method called on it and how the call ended
    procfile,    \* one file of /proc/PID: its name, what it holds, what it was written from
    parsed,      \* what the parser of that file produced
    pc,          \* Process.__init__: the attribute assigned next, "done" or "raised"
    process,     \* the attributes of the Process object (self) assigned so far
    reads,       \* what /proc answered to each read of __init__, in order
    derived,     \* the derived property read last on the built object, and its outcome
    fdenv,       \* the scanned process: its state and its open descriptors
    scan,        \* Process._fds under way: where it is and what /proc answered it
    fdsret,      \* what Process._fds returned or raised
    listArgs,    \* the arguments of Process.list
    procdir,     \* the entries of /proc and the uid owning each
    listing,     \* Process.list under way: its locals
    listRet      \* what Process.list returned or raised

decodeVars == <<hex, decoded>>
rodictVars == <<rodict, constructed, lastCall>>
parseVars == <<procfile, parsed>>
snapVars == <<pc, process, reads, derived>>
fdsVars == <<fdenv, scan, fdsret>>
listVars == <<listArgs, procdir, listing, listRet>>
vars == <<hex, decoded, rodict, constructed, lastCall, procfile, parsed,
          pc, process, reads, derived, fdenv, scan, fdsret,
          listArgs, procdir, listing, listRet>>

\* Each specification below runs one part of the program; the variables of the
\* other parts rest at these values.
DecodeIdle == hex = "" /\ decoded = <<>>
RODictIdle == rodict = <<>> /\ constructed = <<>> /\ lastCall = <<>>
ParseIdle == procfile = <<>> /\ parsed = <<>>
SnapIdle == pc = "" /\ process = <<>> /\ reads = <<>> /\ derived = <<>>
FdsIdle == fdenv = <<>> /\ scan = <<>> /\ fdsret = <<>>
ListIdle == listArgs = <<>> /\ procdir = <<>> /\ listing = <<>> /\ listRet = <<>>

(***************************************************************************)
(* Python built-ins used by the source                                     *)
(***************************************************************************)
None == [none |-> TRUE]
PyInt(n) == [int |-> n]
PyStr(s) == [str |-> s]
Ok(v) == [ok |-> v]
Raise(e) == [raise |-> e]
IsOk(r) == "ok" \in DOMAIN r
IsRaise(r) == "raise" \in DOMAIN r
IsNone(v) == "none" \in DOMAIN v

Char(s, i) == SubSeq(s, i, i)

UpperHex == "0123456789ABCDEF"
LowerHex == "0123456789abcdef"
DecDigits == "0123456789"

IsHexDigit(c) == \E i \in 1..16 : Char(UpperHex, i) = c \/ Char(LowerHex, i) = c
HexDigitValue(c) ==
    (CHOOSE i \in 1..16 : Char(UpperHex, i) = c \/ Char(LowerHex, i) = c) - 1
IsDecDigit(c) == \E i \in 1..10 : Char(DecDigits, i) = c
DecDigitValue(c) == (CHOOSE i \in 1..10 : Char(DecDigits, i) = c) - 1

\* A Python integer is unbounded.  One that comes out of int(s, 16) is held as its
\* base-16 digits, most significant first, without leading zeros (0 is <<>>).
RECURSIVE StripZeros(_)
StripZeros(d) ==
    IF d = <<>> \/ d[1] # 0 THEN d ELSE StripZeros(Tail(d))

RECURSIVE BigValue(_)
\* the digits as a machine integer (for values small enough to be one)
BigValue(d) ==
    IF d = <<>> THEN 0 ELSE BigValue(SubSeq(d, 1, Len(d) - 1)) * 16 + d[Len(d)]

\* int(s, 16) on a string of the model's alphabet (hex digits of either case and
\* other letters; no sign, blank or 0x prefix occurs in it).
IntBase16(s) ==
    IF s # "" /\ \A i \in 1..Len(s) : IsHexDigit(Char(s, i))
    THEN Ok(StripZeros([i \in 1..Len(s) |-> HexDigitValue(Char(s, i))]))
    ELSE Raise("ValueError")

RECURSIVE DecStr(_)
\* '%d' of a non-negative integer
DecStr(n) ==
    IF n < 10 THEN Char(DecDigits, n + 1)
    ELSE DecStr(n \div 10) \o Char(DecDigits, (n % 10) + 1)

\* struct.pack("<L", v): v must fit 32 bits; four bytes, least significant first
struct_pack_L(v) ==
    IF Len(v) <= 8
    THEN LET p == [i \in 1..8 |-> IF i <= 8 - Len(v) THEN 0 ELSE v[i - (8 - Len(v))]]
         IN  Ok(<<p[7] * 16 + p[8], p[5] * 16 + p[6], p[3] * 16 + p[4], p[1] * 16 + p[2]>>)
    ELSE Raise("struct.error")

\* socket.inet_ntoa(packed): the bytes in order, in decimal, joined by dots
inet_ntoa(packed) ==
    DecStr(packed[1]) \o "." \o DecStr(packed[2]) \o "." \o
    DecStr(packed[3]) \o "." \o DecStr(packed[4])

(***************************************************************************)
(* Primitive decoders                                                      *)
(***************************************************************************)
ip_from_le_hex_be(le_hex) ==
    LET laddr == IntBase16(le_hex)
    IN  IF IsRaise(laddr) THEN laddr
        ELSE LET packed_ip == struct_pack_L(laddr.ok)
             IN  IF IsRaise(packed_ip) THEN packed_ip
                 ELSE Ok(inet_ntoa(<<packed_ip.ok[4], packed_ip.ok[3],
                                     packed_ip.ok[2], packed_ip.ok[1]>>))

ip_from_le_hex(le_hex) ==
    LET laddr == IntBase16(le_hex)
    IN  IF IsRaise(laddr) THEN laddr
        ELSE LET packed_ip == struct_pack_L(laddr.ok)
             IN  IF IsRaise(packed_ip) THEN packed_ip
                 ELSE Ok(inet_ntoa(packed_ip.ok))

port_from_hex(p_hex) == IntBase16(p_hex)

hexmap ==
    [c \in 1..12 |->
        CASE c = 1 -> "ESTABLISHED"
          [] c = 2 -> "TCP_SYN_SENT"
          [] c = 3 -> "TCP_SYN_RECV"
          [] c = 4 -> "TCP_FIN_WAIT1"
          [] c = 5 -> "TCP_FIN_WAIT2"
          [] c = 6 -> "TCP_TIME_WAIT"
          [] c = 7 -> "TCP_CLOSE"
          [] c = 8 -> "TCP_CLOSE_WAIT"
          [] c = 9 -> "TCP_LAST_ACK"
          [] c = 10 -> "TCP_LISTEN"
          [] c = 11 -> "TCP_CLOSING"
          [] c = 12 -> "TCP_MAX_STATES"]

\* The source evaluates int(hex_status, 16) and then CALLS the dictionary with it:
\* hexmap(...), not hexmap[...].  A dict is not callable, so once the argument has
\* been evaluated the call raises TypeError whatever the code is.
port_status_from_hex(hex_status) ==
    LET code == IntBase16(hex_status)
    IN  IF IsRaise(code) THEN code ELSE Raise("TypeError")

(***************************************************************************)
(* Decoder inputs: 8-digit addresses built from four byte pairs, and what  *)
(* a caller can get wrong about them (case, length, a letter that is no    *)
(* hex digit); two-digit state codes.                                      *)
(***************************************************************************)
MaxExtra == 1

BytePairs == {"88", "12", "10", "AC"}
WellFormed8 == {a \o b \o c \o d : a \in BytePairs, b \in BytePairs,
                                   c \in BytePairs, d \in BytePairs}

RECURSIVE Lower(_)
Lower(s) ==
    IF s = "" THEN ""
    ELSE LET c == Char(s, 1)
             l == IF \E i \in 1..16 : Char(UpperHex, i) = c
                  THEN Char(LowerHex, CHOOSE i \in 1..16 : Char(UpperHex, i) = c)
                  ELSE c
         IN  l \o Lower(SubSeq(s, 2, Len(s)))

RECURSIVE Zeros(_)
Zeros(n) == IF n = 0 THEN "" ELSE "0" \o Zeros(n - 1)

Variants(h) ==
    {h, Lower(h)}
    \cup {SubSeq(h, k + 1, Len(h)) : k \in 1..Len(h)}
    \cup {h \o Zeros(k) : k \in 1..MaxExtra}
    \cup {Zeros(k) \o h : k \in 1..MaxExtra}
    \cup {SubSeq(h, 1, i - 1) \o "G" \o SubSeq(h, i + 1, Len(h)) : i \in 1..Len(h)}

StateCodes == {"0" \o Char(UpperHex, i) : i \in 1..16}

HexInputs == UNION {Variants(h) : h \in WellFormed8} \cup StateCodes

Pending == [fn |-> "none", out |-> None]

InitDecode ==
    /\ hex \in HexInputs
    /\ decoded = Pending
    /\ RODictIdle /\ ParseIdle /\ SnapIdle /\ FdsIdle /\ ListIdle

IpFromLeHex ==
    /\ decoded = Pending
    /\ decoded' = [fn |-> "ip_from_le_hex", out |-> ip_from_le_hex(hex)]
    /\ UNCHANGED <<hex, rodictVars, parseVars, snapVars, fdsVars, listVars>>

PortFromHex ==
    /\ decoded = Pending
    /\ decoded' = [fn |-> "port_from_hex", out |-> port_from_hex(hex)]
    /\ UNCHANGED <<hex, rodictVars, parseVars, snapVars, fdsVars, listVars>>

PortStatusFromHex ==
    /\ decoded = Pending
    /\ decoded' = [fn |-> "port_status_from_hex", out |-> port_status_from_hex(hex)]
    /\ UNCHANGED <<hex, rodictVars, parseVars, snapVars, fdsVars, listVars>>

NextDecode == IpFromLeHex \/ PortFromHex \/ PortStatusFromHex

SpecDecode == InitDecode /\ [][NextDecode]_vars

(***************************************************************************)
(* Properties of the decoders                                              *)
(***************************************************************************)
AllHex(s) == s # "" /\ \A i \in 1..Len(s) : IsHexDigit(Char(s, i))
IsHexOfLen(s, n) == Len(s) = n /\ AllHex(s)

RECURSIVE StripZeroChars(_)
StripZeroChars(s) ==
    IF s = "" \/ Char(s, 1) # "0" THEN s ELSE StripZeroChars(SubSeq(s, 2, Len(s)))

\* The k-th byte (1..4, as written left to right) of an 8-hex-digit string
ByteOf(h, k) ==
    HexDigitValue(Char(h, 2 * k - 1)) * 16 + HexDigitValue(Char(h, 2 * k))

\* The dotted quad of the four bytes of an 8-hex-digit string, last byte first
ReversedQuad(h) ==
    DecStr(ByteOf(h, 4)) \o "." \o DecStr(ByteOf(h, 3)) \o "." \o
    DecStr(ByteOf(h, 2)) \o "." \o DecStr(ByteOf(h, 1))

EightDigitInputs == WellFormed8 \cup {Lower(h) : h \in WellFormed8}

\* C4 (as claimed): the state decoder gives the named state for every code in
\* 1..12 and signals an error for every other code.
C4_StatusDecodeNamesTheState ==
    (decoded.fn = "port_status_from_hex" /\ IsHexOfLen(hex, 2))
        => LET code == BigValue(IntBase16(hex).ok)
           IN  IF code \in 1..12
               THEN decoded.out = Ok(hexmap[code])
               ELSE IsRaise(decoded.out)

ReadOnly == Raise("TypeError: RODict is a read only dictionary")

\* A method call gives the items afterwards and what the call returned or raised.
Call(items, ret) == [self |-> items, ret |-> ret]

RODict___setitem__(self, key, value) == Call(self, ReadOnly)
RODict_clear(self) == Call(self, ReadOnly)
RODict___delitem__(self, key) == Call(self, ReadOnly)
RODict_pop(self, key) == Call(self, ReadOnly)
RODict_popitem(self) == Call(self, ReadOnly)
RODict_update(self, other) == Call(self, ReadOnly)

\* Not overridden by RODict: dict.setdefault, which stores through the C-level
\* insert and never goes through __setitem__.
RODict_setdefault(self, key, default) ==
    IF key \in DOMAIN self
    THEN Call(self, Ok(self[key]))
    ELSE Call([k \in DOMAIN self \cup {key} |-> IF k = key THEN default ELSE self[k]],
              Ok(default))

Keys == {"0", "1", "2"}
Values == {"/dev/null", "/dev/pts/0"}
Dicts == UNION {[K -> Values] : K \in SUBSET Keys}

InitRODict ==
    /\ rodict \in Dicts
    /\ constructed = rodict
    /\ lastCall = [method |-> "none", ret |-> None]
    /\ DecodeIdle /\ ParseIdle /\ SnapIdle /\ FdsIdle /\ ListIdle

SetItem ==
    \E k \in Keys, v \in Values :
        LET call == RODict___setitem__(rodict, k, v)
        IN  /\ rodict' = call.self
            /\ lastCall' = [method |-> "__setitem__", ret |-> call.ret]
            /\ UNCHANGED <<constructed, decodeVars, parseVars, snapVars, fdsVars, listVars>>

DelItem ==
    \E k \in Keys :
        LET call == RODict___delitem__(rodict, k)
        IN  /\ rodict' = call.self
            /\ lastCall' = [method |-> "__delitem__", ret |-> call.ret]
            /\ UNCHANGED <<constructed, decodeVars, parseVars, snapVars, fdsVars, listVars>>

Clear ==
    LET call == RODict_clear(rodict)
    IN  /\ rodict' = call.self
        /\ lastCall' = [method |-> "clear", ret |-> call.ret]
        /\ UNCHANGED <<constructed, decodeVars, parseVars, snapVars, fdsVars, listVars>>

Pop ==
    \E k \in Keys :
        LET call == RODict_pop(rodict, k)
        IN  /\ rodict' = call.self
            /\ lastCall' = [method |-> "pop", ret |-> call.ret]
            /\ UNCHANGED <<constructed, decodeVars, parseVars, snapVars, fdsVars, listVars>>

PopItem ==
    LET call == RODict_popitem(rodict)
    IN  /\ rodict' = call.self
        /\ lastCall' = [method |-> "popitem", ret |-> call.ret]
        /\ UNCHANGED <<constructed, decodeVars, parseVars, snapVars, fdsVars, listVars>>

Update ==
    \E other \in Dicts :
        LET call == RODict_update(rodict, other)
        IN  /\ rodict' = call.self
            /\ lastCall' = [method |-> "update", ret |-> call.ret]
            /\ UNCHANGED <<constructed, decodeVars, parseVars, snapVars, fdsVars, listVars>>

SetDefault ==
    \E k \in Keys, v \in Values :
        LET call == RODict_setdefault(rodict, k, v)
        IN  /\ rodict' = call.self
            /\ lastCall' = [method |-> "setdefault", ret |-> call.ret]
            /\ UNCHANGED <<constructed, decodeVars, parseVars, snapVars, fdsVars, listVars>>

NextRODict == SetItem \/ DelItem \/ Clear \/ Pop \/ PopItem \/ Update \/ SetDefault

SpecRODict == InitRODict /\ [][NextRODict]_vars

\* C2 (as claimed): whatever mutation attempts are made on a read-only table
\* (item assignment, item deletion, clear, pop, popitem, update, setdefault), each
\* one fails with an error and the table keeps the items it was constructed with.
C2_RODictRejectsEveryMutation ==
    /\ lastCall.method # "none" => IsRaise(lastCall.ret)
    /\ rodict = constructed

(***************************************************************************)
(* Python string methods used by the parsers                               *)
(***************************************************************************)
\* chr(0) cannot be written in a TLA+ string: "@" stands for it (no file of the
\* model holds a literal "@").
NUL == "@"

IsSpace(c) == c \in {" ", "\t", "\n", "\r", "\f"}

RECURSIVE LStrip(_)
LStrip(s) == IF s # "" /\ IsSpace(Char(s, 1)) THEN LStrip(SubSeq(s, 2, Len(s))) ELSE s
RECURSIVE RStrip(_)
RStrip(s) ==
    IF s # "" /\ IsSpace(Char(s, Len(s))) THEN RStrip(SubSeq(s, 1, Len(s) - 1)) ELSE s
\* s.strip()
Strip(s) == RStrip(LStrip(s))

RECURSIVE RStripChar(_, _)
\* s.rstrip(c)
RStripChar(s, c) ==
    IF s # "" /\ Char(s, Len(s)) = c THEN RStripChar(SubSeq(s, 1, Len(s) - 1), c) ELSE s

\* s.find(c) + 1: the position of the first c in s, 0 when there is none
Find(s, c) ==
    LET at == {i \in 1..Len(s) : Char(s, i) = c}
    IN  IF at = {} THEN 0 ELSE CHOOSE i \in at : \A j \in at : i <= j

RECURSIVE Split(_, _)
\* s.split(sep), sep one character: empty pieces are kept
Split(s, sep) ==
    LET i == Find(s, sep)
    IN  IF i = 0 THEN <<s>>
        ELSE <<SubSeq(s, 1, i - 1)>> \o Split(SubSeq(s, i + 1, Len(s)), sep)

\* s.split(sep, 1)
Split1(s, sep) ==
    LET i == Find(s, sep)
    IN  IF i = 0 THEN <<s>> ELSE <<SubSeq(s, 1, i - 1), SubSeq(s, i + 1, Len(s))>>

RECURSIVE SplitWS(_)
\* s.split(): the pieces between runs of white space, none of them empty
SplitWS(s) ==
    LET t == LStrip(s)
        sp == {i \in 1..Len(t) : IsSpace(Char(t, i))}
        i == IF sp = {} THEN Len(t) + 1 ELSE CHOOSE x \in sp : \A y \in sp : x <= y
    IN  IF t = "" THEN <<>>
        ELSE <<SubSeq(t, 1, i - 1)>> \o SplitWS(SubSeq(t, i, Len(t)))

RECURSIVE Join(_, _)
\* sep.join(parts)
Join(sep, parts) ==
    IF parts = <<>> THEN ""
    ELSE IF Len(parts) = 1 THEN parts[1]
    ELSE parts[1] \o sep \o Join(sep, Tail(parts))

StartsWith(s, prefix) == Len(s) >= Len(prefix) /\ SubSeq(s, 1, Len(prefix)) = prefix

RECURSIVE DecValue(_)
DecValue(s) ==
    IF s = "" THEN 0
    ELSE DecValue(SubSeq(s, 1, Len(s) - 1)) * 10 + DecDigitValue(Char(s, Len(s)))

\* int(s): surrounding white space and one sign are accepted.  The files of the
\* model hold numbers that fit a machine integer.
IntBase10(s) ==
    LET t == Strip(s)
        signed == t # "" /\ Char(t, 1) \in {"-", "+"}
        digits == IF signed THEN SubSeq(t, 2, Len(t)) ELSE t
    IN  IF digits # "" /\ \A i \in 1..Len(digits) : IsDecDigit(Char(digits, i))
        THEN Ok(IF signed /\ Char(t, 1) = "-" THEN 0 - DecValue(digits) ELSE DecValue(digits))
        ELSE Raise("ValueError")

RECURSIVE Repeat(_, _)
Repeat(s, n) == IF n <= 0 THEN "" ELSE s \o Repeat(s, n - 1)

\* v * n, v an int or a str (a str is repeated)
Times(v, n) == IF "int" \in DOMAIN v THEN PyInt(v.int * n) ELSE PyStr(Repeat(v.str, n))

RECURSIVE Slices(_, _)
Slices(widths, s) ==
    IF widths = <<>> THEN <<>>
    ELSE <<SubSeq(s, 1, widths[1])>> \o Slices(Tail(widths), SubSeq(s, widths[1] + 1, Len(s)))

RECURSIVE Sum(_)
Sum(widths) == IF widths = <<>> THEN 0 ELSE widths[1] + Sum(Tail(widths))

\* struct.unpack of a format made of 's' fields only, '@26s21s21s10s' being
\* <<26, 21, 21, 10>>: the string must be exactly as long as the fields together.
struct_unpack(widths, s) ==
    IF Len(s) = Sum(widths) THEN Ok(Slices(widths, s)) ELSE Raise("struct.error")

\* d[k] = v on a dict
DictSet(d, k, v) == [x \in DOMAIN d \cup {k} |-> IF x = k THEN v ELSE d[x]]
EmptyDict == <<>>

\* A namedtuple: the record of its field names, filled in order
NamedTuple(names, data) ==
    [f \in {names[i] : i \in 1..Len(names)} |-> data[CHOOSE i \in 1..Len(names) : names[i] = f]]

(***************************************************************************)
(* The raw file reader.  A file of /proc is what open() and read() answer  *)
(* for it: an errno ("OK" when it can be read) and its text.               *)
(***************************************************************************)
File(errno, text) == [errno |-> errno, text |-> text]

raw_read_empty(file) ==
    IF file.errno = "OK" THEN Ok(PyStr(file.text))
    ELSE IF file.errno \notin {"EACCES", "ENOENT"} THEN Raise("IOError " \o file.errno)
    ELSE Ok(PyStr(""))

raw_read(file) ==
    IF file.errno = "OK" THEN Ok(PyStr(file.text))
    ELSE IF file.errno \notin {"EACCES", "ENOENT"} THEN Raise("IOError " \o file.errno)
    ELSE Ok(None)

(***************************************************************************)
(* Record parsers.  Each takes the file it reads and gives Ok(value),      *)
(* value None when the file could not be read, or Raise(exception).        *)
(***************************************************************************)
PAGESIZE == 4096

PyList(l) == [list |-> l]
RODict(d) == [rodict |-> d]

PStatFields ==
    <<"pid", "comm", "state", "ppid", "pgrp", "session", "tty_nr", "tpgid", "flags",
      "minflt", "cminflt", "majflt", "cmajflt", "utime", "stime", "cutime", "cstime",
      "priority", "nice", "num_threads", "itrealvalue", "starttime", "vsize", "rss",
      "rsslim", "startcode", "endcode", "startstack", "kstkesp", "kstkeip", "signal",
      "blocked", "sigignore", "sigcatch", "wchan", "nswap", "cnswap", "exit_signal",
      "processor", "rt_priority", "policy", "delayacct_blkio_ticks", "guest_time",
      "cguest_time">>

PStatMFields == <<"size", "resident", "share", "text", "lib", "data", "UNUSED">>

PStat(data) ==
    IF Len(data) = Len(PStatFields) THEN Ok(NamedTuple(PStatFields, data))
    ELSE Raise("TypeError")

PStatM(data) ==
    IF Len(data) = Len(PStatMFields) THEN Ok(NamedTuple(PStatMFields, data))
    ELSE Raise("TypeError")

AddressRange(start, end) == [start |-> start, end |-> end]
Device(major, minor) == [major |-> major, minor |-> minor]
Limit(value, units) == [value |-> value, units |-> units]
PMap(addresses, perms, offset, dev, inode, pathname) ==
    [addresses |-> addresses, perms |-> perms, offset |-> offset, dev |-> dev,
     inode |-> inode, pathname |-> pathname]

Perms(s) ==
    [raw |-> s,
     read |-> Find(s, "r") # 0,
     write |-> Find(s, "w") # 0,
     execute |-> Find(s, "x") # 0,
     shared |-> Find(s, "s") # 0,
     private |-> Find(s, "p") # 0]

\* The nested convert(s) of _limits and _stat: an int when s is numeric, else s
convert(s) ==
    LET t == Strip(s)
        n == IntBase10(t)
    IN  IF IsOk(n) THEN PyInt(n.ok) ELSE PyStr(t)

Process__args(file) ==
    LET r == raw_read(file)
    IN  IF IsRaise(r) THEN r
        ELSE IF r.ok # None
        THEN LET parts == Split(r.ok.str, NUL)
             IN  Ok(PyList(SubSeq(parts, 1, Len(parts) - 1)))
        ELSE Ok(None)

RECURSIVE environ_loop(_, _)
environ_loop(items, environ) ==
    IF items = <<>> THEN environ
    ELSE LET data == items[1]
             kv == Split1(data, "=")
             key == IF Len(kv) = 2 THEN kv[1] ELSE RStripChar(data, "=")
             val == IF Len(kv) = 2 THEN PyStr(kv[2]) ELSE None
         IN  environ_loop(Tail(items), DictSet(environ, key, val))

Process__environ(file) ==
    LET r == raw_read(file)
    IN  IF IsRaise(r) THEN r
        ELSE IF r.ok # None
        THEN LET parts == Split(r.ok.str, NUL)
             IN  Ok(RODict(environ_loop(SubSeq(parts, 1, Len(parts) - 1), EmptyDict)))
        ELSE Ok(None)

Process__loginuid(file) ==
    LET r == raw_read(file)
    IN  IF IsRaise(r) THEN r
        ELSE IF r.ok # None
        THEN LET uid == IntBase10(r.ok.str)
             IN  IF IsRaise(uid) THEN uid ELSE Ok(PyInt(uid.ok))
        ELSE Ok(None)

Process__statm(file) ==
    LET r == raw_read(file)
    IN  IF IsRaise(r) THEN r
        ELSE IF r.ok # None
        THEN LET tokens == SplitWS(r.ok.str)
                 ints == [i \in 1..Len(tokens) |-> IntBase10(tokens[i])]
             IN  IF \E i \in 1..Len(tokens) : IsRaise(ints[i]) THEN Raise("ValueError")
                 ELSE PStatM([i \in 1..Len(tokens) |-> PyInt(ints[i].ok * PAGESIZE)])
        ELSE Ok(None)

\* The positions (0-indexed, as in the source) that _stat multiplies by PAGESIZE
stat_scaled_shifted == {24, 25, 26}
stat_scaled == {23, 35, 36}

Process__stat(file) ==
    LET r == raw_read(file)
    IN  IF IsRaise(r) THEN r
        ELSE IF r.ok # None
        THEN LET tokens == SplitWS(r.ok.str)
                 data == [i \in 1..Len(tokens) |-> convert(tokens[i])]
             IN  IF \E index \in stat_scaled : index + 1 > Len(data)
                 THEN Raise("IndexError")
                 ELSE PStat([i \in 1..Len(data) |->
                                IF i - 1 \in stat_scaled THEN Times(data[i], PAGESIZE)
                                ELSE data[i]])
        ELSE Ok(None)

\* One data line of _limits: the four-field layout, and on struct.error the
\* three-field layout (whose own struct.error is not caught).
limits_line_lenient(line) ==
    LET four == struct_unpack(<<26, 21, 21, 10>>, line)
        three == struct_unpack(<<26, 21, 21>>, SubSeq(line, 1, 68))
    IN  IF IsOk(four)
        THEN LET data == [i \in 1..4 |-> convert(four.ok[i])]
             IN  Ok([ltype |-> data[1],
                     entry |-> [soft |-> Limit(data[2], data[4]),
                                hard |-> Limit(data[3], data[4])]])
        ELSE IF IsOk(three)
        THEN LET data == [i \in 1..3 |-> convert(three.ok[i])]
             IN  Ok([ltype |-> data[1],
                     entry |-> [soft |-> Limit(data[2], PyStr("N/A")),
                                hard |-> Limit(data[3], PyStr("N/A"))]])
        ELSE three

limits_line(line) ==
    LET four == struct_unpack(<<26, 21, 21, 10>>, line)
        three == struct_unpack(<<26, 21, 21>>, line)
    IN  IF IsOk(four)
        THEN LET data == [i \in 1..4 |-> convert(four.ok[i])]
             IN  Ok([ltype |-> data[1],
                     entry |-> [soft |-> Limit(data[2], data[4]),
                                hard |-> Limit(data[3], data[4])]])
        ELSE IF IsOk(three)
        THEN LET data == [i \in 1..3 |-> convert(three.ok[i])]
             IN  Ok([ltype |-> data[1],
                     entry |-> [soft |-> Limit(data[2], PyStr("N/A")),
                                hard |-> Limit(data[3], PyStr("N/A"))]])
        ELSE three

RECURSIVE limits_loop(_, _)
limits_loop(lines, limits) ==
    IF lines = <<>> THEN Ok(RODict(limits))
    ELSE LET line == lines[1]
         IN  IF StartsWith(line, "Limit") \/ line = ""
             THEN limits_loop(Tail(lines), limits)
             ELSE LET parsed_line == limits_line(line)
                  IN  IF IsRaise(parsed_line) THEN parsed_line
                      ELSE limits_loop(Tail(lines),
                                       DictSet(limits, parsed_line.ok.ltype,
                                               parsed_line.ok.entry))

Process__limits(file) ==
    LET r == raw_read(file)
    IN  IF IsRaise(r) THEN r
        ELSE IF r.ok # None THEN limits_loop(Split(r.ok.str, "\n"), EmptyDict)
        ELSE Ok(None)

\* int(v, 16) of a map column (the model's addresses fit a machine integer)
HexField(v) ==
    LET n == IntBase16(v) IN IF IsRaise(n) THEN n ELSE Ok(BigValue(n.ok))

\* The columns shared by both branches of _maps
maps_fields(fields, pathname) ==
    IF Len(fields) < 5 THEN Raise("IndexError")
    ELSE LET addr == Split(fields[1], "-")
             addresses == [i \in 1..Len(addr) |-> HexField(addr[i])]
             offset == HexField(fields[3])
             devs == Split(fields[4], ":")
             dev == [i \in 1..Len(devs) |-> HexField(devs[i])]
             inode == IntBase10(fields[5])
         IN  IF \/ \E i \in 1..Len(addr) : IsRaise(addresses[i])
                \/ \E i \in 1..Len(devs) : IsRaise(dev[i])
                \/ IsRaise(offset) \/ IsRaise(inode)
             THEN Raise("ValueError")
             ELSE IF Len(addr) # 2 \/ Len(devs) # 2 THEN Raise("TypeError")
             ELSE Ok(PMap(AddressRange(addresses[1].ok, addresses[2].ok),
                          Perms(fields[2]), offset.ok,
                          Device(dev[1].ok, dev[2].ok), inode.ok, pathname))

maps_line_blank_is_none(line) ==
    IF Len(line) > 73 /\ Strip(SubSeq(line, 74, Len(line))) # ""
    THEN LET unpacked == struct_unpack(<<73, Len(line) - 73>>, line)
         IN  maps_fields(SplitWS(unpacked.ok[1]), PyStr(Strip(unpacked.ok[2])))
    ELSE maps_fields(SplitWS(line), None)

maps_line(line) ==
    IF Len(line) > 73
    THEN LET unpacked == struct_unpack(<<73, Len(line) - 73>>, line)
         IN  maps_fields(SplitWS(unpacked.ok[1]), PyStr(Strip(unpacked.ok[2])))
    ELSE maps_fields(SplitWS(line), None)

RECURSIVE maps_loop(_, _)
maps_loop(lines, maps) ==
    IF lines = <<>> THEN Ok(PyList(maps))
    ELSE IF Len(lines[1]) = 0 THEN maps_loop(Tail(lines), maps)
    ELSE LET m == maps_line(lines[1])
         IN  IF IsRaise(m) THEN m ELSE maps_loop(Tail(lines), Append(maps, m.ok))

Process__maps(file) ==
    LET r == raw_read(file)
    IN  IF IsRaise(r) THEN r
        ELSE IF r.ok # None THEN maps_loop(Split(r.ok.str, "\n"), <<>>)
        ELSE Ok(None)

\* A symbolic link of /proc is what readlink() answers for it.
Link(errno, target) == [errno |-> errno, target |-> target]

\* The except clause shared by _root and _fds
OSError_handler(errno) ==
    IF errno = "EACCES" THEN Ok(None)
    ELSE IF errno = "ENOENT" THEN Ok(None)
    ELSE Raise("OSError " \o errno)

Process__root(link) ==
    IF link.errno # "OK" THEN OSError_handler(link.errno)
    ELSE Ok(PyStr(link.target))

\* The fd directory is what listdir() answers (an errno, and the names listed) and
\* what readlink() then answers for each name, at the time it is asked.
FdDir(errno, links) == [errno |-> errno, links |-> links]
FdLink(fd, errno, target) == [fd |-> fd, errno |-> errno, target |-> target]

RECURSIVE fds_loop_skip(_, _)
fds_loop_skip(links, fds) ==
    IF links = <<>> THEN Ok(RODict(fds))
    ELSE IF links[1].errno \in {"EACCES", "ENOENT"} THEN fds_loop_skip(Tail(links), fds)
    ELSE IF links[1].errno # "OK" THEN OSError_handler(links[1].errno)
    ELSE fds_loop_skip(Tail(links), DictSet(fds, links[1].fd, links[1].target))

RECURSIVE fds_loop(_, _)
fds_loop(links, fds) ==
    IF links = <<>> THEN Ok(RODict(fds))
    ELSE IF links[1].errno # "OK" THEN OSError_handler(links[1].errno)
    ELSE fds_loop(Tail(links), DictSet(fds, links[1].fd, links[1].target))

Process__fds(dir) ==
    IF dir.errno # "OK" THEN OSError_handler(dir.errno)
    ELSE fds_loop(dir.links, EmptyDict)

\* The system's user database, as pwd sees it
passwd == [uid \in {0, 500} |-> IF uid = 0 THEN "root" ELSE "alice"]

\* pwd.getpwuid(uid).pw_name
pwd_getpwuid(uid) ==
    IF "int" \notin DOMAIN uid THEN Raise("TypeError")
    ELSE IF uid.int \in DOMAIN passwd THEN Ok(passwd[uid.int])
    ELSE Raise("KeyError")

\* The property Process.cmdline: ' '.join(self.args)
Process_cmdline(obj) ==
    IF "list" \notin DOMAIN obj.args THEN Raise("TypeError")
    ELSE Ok(Join(" ", obj.args.list))

\* The property Process.loginuser
Process_loginuser(obj) ==
    LET pw == pwd_getpwuid(obj.loginuid)
    IN  IF IsOk(pw) THEN pw
        ELSE IF pw = Raise("KeyError") THEN Ok("N/A")
        ELSE pw

(***************************************************************************)
(* Files for the parsers, written the way the kernel writes them from the  *)
(* values they report, so that a parse can be held against those values.   *)
(***************************************************************************)
MaxArityDrift == 1
MaxUnitsCols == 11
MaxBlanks == 2

IntStr(n) == IF n < 0 THEN "-" \o DecStr(0 - n) ELSE DecStr(n)
Spaces(n) == Repeat(" ", n)
PadRight(s, n) == s \o Spaces(n - Len(s))

\* /proc/PID/stat: n values, the i-th being i, but for comm, state and one chosen
StatValues(n, p, v) ==
    [i \in 1..n |-> IF i = 2 THEN PyStr("(sh)")
                    ELSE IF i = 3 THEN PyStr("S")
                    ELSE IF i = p THEN PyInt(v)
                    ELSE PyInt(i)]
StatText(values) ==
    Join(" ", [i \in 1..Len(values) |->
                  IF "int" \in DOMAIN values[i] THEN IntStr(values[i].int)
                  ELSE values[i].str]) \o "\n"
StatArities ==
    {36} \cup {Len(PStatFields) + d : d \in (0 - MaxArityDrift)..MaxArityDrift}
StatFiles ==
    {[name |-> "stat", file |-> File("OK", StatText(StatValues(n, p, v))),
      from |-> StatValues(n, p, v)] :
        n \in StatArities, p \in 22..38, v \in {-1, 0, 7}}

\* /proc/PID/limits: "%-25s %-20s %-20s %-10s\n", the units column cut to `cols`
LimitsHeader ==
    PadRight("Limit", 26) \o PadRight("Soft Limit", 21) \o PadRight("Hard Limit", 21)
        \o PadRight("Units", 10)
LimitText(v) == IF "int" \in DOMAIN v THEN IntStr(v.int) ELSE v.str
LimitsLine(l) ==
    PadRight(l.name, 26) \o PadRight(LimitText(l.soft), 21)
        \o PadRight(LimitText(l.hard), 21) \o SubSeq(PadRight(l.units, l.cols), 1, l.cols)
LimitLines ==
    [name : {"Max cpu time", "Max nice priority"},
     soft : {PyStr("unlimited"), PyInt(0), PyInt(1024)},
     hard : {PyStr("unlimited"), PyInt(4096)},
     units : {"seconds", ""},
     cols : 0..MaxUnitsCols]
LimitsFiles ==
    {[name |-> "limits",
      file |-> File("OK", LimitsHeader \o "\n" \o LimitsLine(l) \o "\n"),
      from |-> l] : l \in LimitLines}

\* /proc/PID/maps: "%08lx-%08lx %c%c%c%c %08llx %02x:%02x %lu ", then either the
\* end of the line, or blanks up to column 73 and the path.  A line is written
\* here from its columns, whether its columns are padded to 73, and what follows:
\* `lead` blanks, the path, `trail` blanks.
MapColumns ==
    {[text |-> "00400000-0040b000 r-xp 00000000 08:01 1234",
      map |-> PMap(AddressRange(4194304, 4239360), Perms("r-xp"), 0, Device(8, 1), 1234,
                   None)],
     [text |-> "0060a000-0060b000 rw-p 0000a000 00:00 0",
      map |-> PMap(AddressRange(6332416, 6336512), Perms("rw-p"), 40960, Device(0, 0), 0,
                   None)]}
MapPaths == {"", "/bin/cat", "/opt/my app/x"}
MapLines ==
    [columns : MapColumns, padded : BOOLEAN, lead : 0..MaxBlanks, path : MapPaths,
     trail : 0..MaxBlanks]
MapTail(l) == Spaces(l.lead) \o l.path \o Spaces(l.trail)
MapsLine(l) ==
    IF l.padded THEN PadRight(l.columns.text, 73) \o MapTail(l)
    ELSE l.columns.text \o " " \o MapTail(l)
MapsFiles ==
    {[name |-> "maps",
      file |-> File("OK", MapsLine(l) \o "\n" \o "\n" \o MapsLine(l2) \o "\n"),
      from |-> <<l, l2>>] :
        l \in MapLines,
        l2 \in {m \in MapLines : m.padded /\ m.lead = 0 /\ m.trail = 0
                                  /\ m.path = "/bin/cat"}}

Unreadable ==
    {[name |-> n, file |-> File(e, ""), from |-> <<>>] :
        n \in {"stat", "limits", "maps"}, e \in {"ENOENT", "EACCES", "EIO"}}

NotParsed == [none |-> TRUE]

InitParse ==
    /\ procfile \in StatFiles \cup LimitsFiles \cup MapsFiles \cup Unreadable
    /\ parsed = NotParsed
    /\ DecodeIdle /\ RODictIdle /\ SnapIdle /\ FdsIdle /\ ListIdle

ParseStat ==
    /\ procfile.name = "stat" /\ parsed = NotParsed
    /\ parsed' = Process__stat(procfile.file)
    /\ UNCHANGED <<procfile, decodeVars, rodictVars, snapVars, fdsVars, listVars>>

ParseLimits ==
    /\ procfile.name = "limits" /\ parsed = NotParsed
    /\ parsed' = Process__limits(procfile.file)
    /\ UNCHANGED <<procfile, decodeVars, rodictVars, snapVars, fdsVars, listVars>>

ParseMaps ==
    /\ procfile.name = "maps" /\ parsed = NotParsed
    /\ parsed' = Process__maps(procfile.file)
    /\ UNCHANGED <<procfile, decodeVars, rodictVars, snapVars, fdsVars, listVars>>

NextParse == ParseStat \/ ParseLimits \/ ParseMaps

SpecParse == InitParse /\ [][NextParse]_vars

(***************************************************************************)
(* Properties of the parsers                                               *)
(***************************************************************************)
Parsed(name) ==
    procfile.name = name /\ procfile.file.errno = "OK" /\ parsed # NotParsed

PositionOf(field) == CHOOSE i \in 1..Len(PStatFields) : PStatFields[i] = field
ScaledToken(i) == PyInt(procfile.from[i].int * PAGESIZE)

\* C6 (as claimed): _stat multiplies by the page size exactly the tokens at
\* positions 24, 36 and 37 (counted from 1) and passes every other token through,
\* and the record fields that thereby hold byte values are rsslim, startcode and
\* endcode.
C6_StatScalesRssLimitAndCode ==
    (Parsed("stat") /\ Len(procfile.from) = Len(PStatFields)) =>
        /\ IsOk(parsed)
        /\ \A i \in 1..Len(PStatFields) :
              parsed.ok[PStatFields[i]] =
                  IF i \in {24, 36, 37} THEN ScaledToken(i) ELSE procfile.from[i]
        /\ \A f \in {"rsslim", "startcode", "endcode"} :
              parsed.ok[f] = ScaledToken(PositionOf(f))

\* C6 (amended): _stat multiplies by the page size exactly the tokens at positions
\* 24, 36 and 37 (counted from 1) and passes every other token through, and the
\* record fields that thereby hold byte values are rss, nswap and cnswap; rsslim,
\* startcode and endcode keep the value the kernel wrote.
C6_StatScalesRssAndSwap ==
    (Parsed("stat") /\ Len(procfile.from) = Len(PStatFields)) =>
        /\ IsOk(parsed)
        /\ \A i \in 1..Len(PStatFields) :
              parsed.ok[PStatFields[i]] =
                  IF i \in {24, 36, 37} THEN ScaledToken(i) ELSE procfile.from[i]
        /\ \A f \in {"rss", "nswap", "cnswap"} :
              parsed.ok[f] = ScaledToken(PositionOf(f))
        /\ \A f \in {"rsslim", "startcode", "endcode"} :
              parsed.ok[f] = procfile.from[PositionOf(f)]

\* C6 witness: a 44-token line whose 24th token is 7 pages was parsed
C6_Witness ==
    /\ Parsed("stat") /\ Len(procfile.from) = Len(PStatFields)
    /\ procfile.from[24] = PyInt(7)
    /\ IsOk(parsed) /\ parsed.ok.rss = PyInt(28672) /\ parsed.ok.rsslim = PyInt(25)

LimitsOf(l, units) ==
    Ok(RODict([k \in {PyStr(l.name)} |->
                  [soft |-> Limit(l.soft, units), hard |-> Limit(l.hard, units)]]))

\* C7 (as claimed): a data line with the name and the two value fields whose
\* units field is missing or shorter than 10 columns gives a record with units
\* 'N/A' (values coerced to int when numeric) and does not raise; a line with the
\* full units field gives the trimmed units.
C7_ShortUnitsGiveNA ==
    (Parsed("limits") /\ procfile.from.cols <= 10) =>
        IF procfile.from.cols < 10
        THEN parsed = LimitsOf(procfile.from, PyStr("N/A"))
        ELSE parsed = LimitsOf(procfile.from, PyStr(procfile.from.units))

\* C7 (amended): a data line of exactly 68 columns (the name and the two value
\* fields, no units field at all) gives a record with units 'N/A' (values coerced
\* to int when numeric) and does not raise; a line of exactly 78 columns gives the
\* trimmed units; a line of any other length, such as one whose units field is
\* shorter than 10 columns, raises struct.error out of the parser.
C7_OnlyMissingUnitsGiveNA ==
    Parsed("limits") =>
        IF procfile.from.cols = 0
        THEN parsed = LimitsOf(procfile.from, PyStr("N/A"))
        ELSE IF procfile.from.cols = 10
        THEN parsed = LimitsOf(procfile.from, PyStr(procfile.from.units))
        ELSE parsed = Raise("struct.error")

\* C7 witness: a line without units field was parsed to a record with units N/A
C7_Witness ==
    /\ Parsed("limits") /\ procfile.from.cols = 0 /\ procfile.from.soft = PyInt(1024)
    /\ IsOk(parsed)
    /\ parsed.ok.rodict[PyStr(procfile.from.name)].soft = Limit(PyInt(1024), PyStr("N/A"))

MapOf(l, pathname) == [l.columns.map EXCEPT !.pathname = pathname]

\* C8 (as claimed): _maps gives one record for every non-empty line; its pathname
\* is absent when nothing or only white space follows the fixed columns, and is
\* the trailing path, stripped, embedded spaces kept, when there is one.  (Lines
\* as the kernel lays them out: a path starts at column 74.)
C8_BlankTailIsAbsent ==
    (Parsed("maps") /\ (procfile.from[1].padded \/ MapTail(procfile.from[1]) = "")) =>
        /\ IsOk(parsed)
        /\ Len(parsed.ok.list) = 2
        /\ parsed.ok.list[1] =
              MapOf(procfile.from[1],
                    IF procfile.from[1].path = "" THEN None
                    ELSE PyStr(procfile.from[1].path))
        /\ parsed.ok.list[2] = MapOf(procfile.from[2], PyStr(procfile.from[2].path))

\* C8 (amended): _maps gives one record for every non-empty line; its pathname is
\* absent exactly when the line has at most 73 columns, and otherwise is the text
\* beyond column 73 stripped of surrounding white space, embedded spaces kept:
\* the empty string, not absence, when only white space follows column 73.
C8_PathnameIsTextBeyondColumn73 ==
    Parsed("maps") =>
        /\ IsOk(parsed)
        /\ Len(parsed.ok.list) = 2
        /\ parsed.ok.list[1] =
              MapOf(procfile.from[1],
                    IF Len(MapsLine(procfile.from[1])) > 73
                    THEN PyStr(procfile.from[1].path)
                    ELSE None)
        /\ parsed.ok.list[2] = MapOf(procfile.from[2], PyStr(procfile.from[2].path))

\* C8 witness: a line with a padded path holding a space, and one without path
C8_Witness ==
    /\ Parsed("maps") /\ IsOk(parsed)
    /\ procfile.from[1].padded /\ procfile.from[1].lead = 1
    /\ procfile.from[1].path = "/opt/my app/x"
    /\ parsed.ok.list[1].pathname = PyStr("/opt/my app/x")

(***************************************************************************)
(* Process.__init__: nine attributes, each from its own read of /proc/PID. *)
(* The process runs on while it is read: what a read finds (the file, no   *)
(* such file, permission denied, an I/O error) is decided when it is made, *)
(* whatever the reads before it found.                                     *)
(***************************************************************************)
Errnos == {"OK", "ENOENT", "EACCES", "EIO"}

SampleCmdline == "cat" \o NUL \o "/etc/my file" \o NUL
SampleEnviron == "HOME=/root" \o NUL \o "FOO" \o NUL
SampleLimits ==
    LimitsHeader \o "\n"
    \o LimitsLine([name |-> "Max cpu time", soft |-> PyStr("unlimited"),
                   hard |-> PyStr("unlimited"), units |-> "seconds", cols |-> 10]) \o "\n"
    \o LimitsLine([name |-> "Max nice priority", soft |-> PyInt(0), hard |-> PyInt(0),
                   units |-> "", cols |-> 0]) \o "\n"
SampleLoginuids == {"500", "1001"}
SampleMaps ==
    PadRight("00400000-0040b000 r-xp 00000000 08:01 1234", 73) \o "/bin/cat" \o "\n"
    \o "0060a000-0060b000 rw-p 0000a000 00:00 0 " \o "\n"
SampleStat == StatText(StatValues(Len(PStatFields), 24, 7))
SampleStatm == "10 5 2 1 0 4 0" \o "\n"
SampleFdDirs ==
    {FdDir(e, <<>>) : e \in Errnos \ {"OK"}}
    \cup {FdDir("OK", <<FdLink("0", e, "/dev/null")>>) : e \in Errnos}
    \cup {FdDir("OK", <<FdLink("0", "OK", "/dev/null"), FdLink("1", "OK", "socket:[77]")>>)}

InitSnapshot ==
    /\ pc = "args"
    /\ process = [pid |-> 4242]
    /\ reads = <<>>
    /\ derived = [name |-> "none", ret |-> None]
    /\ DecodeIdle /\ RODictIdle /\ ParseIdle /\ FdsIdle /\ ListIdle

\* self.<attr> = <the parser's value>, or the parser's exception leaves __init__
Assigned(attr, r) == [x \in DOMAIN process \cup {attr} |->
                         IF x = attr THEN r.ok ELSE process[x]]

SetArgs ==
    /\ pc = "args"
    /\ \E e \in Errnos :
          LET file == File(e, IF e = "OK" THEN SampleCmdline ELSE "")
              r == Process__args(file)
          IN  /\ reads' = Append(reads, [attr |-> "args", answer |-> file])
              /\ IF IsRaise(r) THEN pc' = "raised" /\ UNCHANGED process
                 ELSE pc' = "environ" /\ process' = Assigned("args", r)
    /\ UNCHANGED <<derived, decodeVars, rodictVars, parseVars, fdsVars, listVars>>

SetEnviron ==
    /\ pc = "environ"
    /\ \E e \in Errnos :
          LET file == File(e, IF e = "OK" THEN SampleEnviron ELSE "")
              r == Process__environ(file)
          IN  /\ reads' = Append(reads, [attr |-> "environ", answer |-> file])
              /\ IF IsRaise(r) THEN pc' = "raised" /\ UNCHANGED process
                 ELSE pc' = "fds" /\ process' = Assigned("environ", r)
    /\ UNCHANGED <<derived, decodeVars, rodictVars, parseVars, fdsVars, listVars>>

SetFds ==
    /\ pc = "fds"
    /\ \E dir \in SampleFdDirs :
          LET r == Process__fds(dir)
          IN  /\ reads' = Append(reads, [attr |-> "fds", answer |-> dir])
              /\ IF IsRaise(r) THEN pc' = "raised" /\ UNCHANGED process
                 ELSE pc' = "limits" /\ process' = Assigned("fds", r)
    /\ UNCHANGED <<derived, decodeVars, rodictVars, parseVars, fdsVars, listVars>>

SetLimits ==
    /\ pc = "limits"
    /\ \E e \in Errnos :
          LET file == File(e, IF e = "OK" THEN SampleLimits ELSE "")
              r == Process__limits(file)
          IN  /\ reads' = Append(reads, [attr |-> "limits", answer |-> file])
              /\ IF IsRaise(r) THEN pc' = "raised" /\ UNCHANGED process
                 ELSE pc' = "loginuid" /\ process' = Assigned("limits", r)
    /\ UNCHANGED <<derived, decodeVars, rodictVars, parseVars, fdsVars, listVars>>

SetLoginuid ==
    /\ pc = "loginuid"
    /\ \E e \in Errnos, text \in SampleLoginuids :
          LET file == File(e, IF e = "OK" THEN text ELSE "")
              r == Process__loginuid(file)
          IN  /\ reads' = Append(reads, [attr |-> "loginuid", answer |-> file])
              /\ IF IsRaise(r) THEN pc' = "raised" /\ UNCHANGED process
                 ELSE pc' = "maps" /\ process' = Assigned("loginuid", r)
    /\ UNCHANGED <<derived, decodeVars, rodictVars, parseVars, fdsVars, listVars>>

SetMaps ==
    /\ pc = "maps"
    /\ \E e \in Errnos :
          LET file == File(e, IF e = "OK" THEN SampleMaps ELSE "")
              r == Process__maps(file)
          IN  /\ reads' = Append(reads, [attr |-> "maps", answer |-> file])
              /\ IF IsRaise(r) THEN pc' = "raised" /\ UNCHANGED process
                 ELSE pc' = "root" /\ process' = Assigned("maps", r)
    /\ UNCHANGED <<derived, decodeVars, rodictVars, parseVars, fdsVars, listVars>>

SetRoot ==
    /\ pc = "root"
    /\ \E e \in Errnos :
          LET link == Link(e, IF e = "OK" THEN "/" ELSE "")
              r == Process__root(link)
          IN  /\ reads' = Append(reads, [attr |-> "root", answer |-> link])
              /\ IF IsRaise(r) THEN pc' = "raised" /\ UNCHANGED process
                 ELSE pc' = "stat" /\ process' = Assigned("root", r)
    /\ UNCHANGED <<derived, decodeVars, rodictVars, parseVars, fdsVars, listVars>>

SetStat ==
    /\ pc = "stat"
    /\ \E e \in Errnos :
          LET file == File(e, IF e = "OK" THEN SampleStat ELSE "")
              r == Process__stat(file)
          IN  /\ reads' = Append(reads, [attr |-> "stat", answer |-> file])
              /\ IF IsRaise(r) THEN pc' = "raised" /\ UNCHANGED process
                 ELSE pc' = "statm" /\ process' = Assigned("stat", r)
    /\ UNCHANGED <<derived, decodeVars, rodictVars, parseVars, fdsVars, listVars>>

SetStatm ==
    /\ pc = "statm"
    /\ \E e \in Errnos :
          LET file == File(e, IF e = "OK" THEN SampleStatm ELSE "")
              r == Process__statm(file)
          IN  /\ reads' = Append(reads, [attr |-> "statm", answer |-> file])
              /\ IF IsRaise(r) THEN pc' = "raised" /\ UNCHANGED process
                 ELSE pc' = "done" /\ process' = Assigned("statm", r)
    /\ UNCHANGED <<derived, decodeVars, rodictVars, parseVars, fdsVars, listVars>>

\* The derived properties, read on an object __init__ has returned
GetCmdline ==
    /\ pc = "done"
    /\ derived' = [name |-> "cmdline", ret |-> Process_cmdline(process)]
    /\ UNCHANGED <<pc, process, reads, decodeVars, rodictVars, parseVars, fdsVars, listVars>>

GetLoginuser ==
    /\ pc = "done"
    /\ derived' = [name |-> "loginuser", ret |-> Process_loginuser(process)]
    /\ UNCHANGED <<pc, process, reads, decodeVars, rodictVars, parseVars, fdsVars, listVars>>

NextSnapshot ==
    \/ SetArgs \/ SetEnviron \/ SetFds \/ SetLimits \/ SetLoginuid \/ SetMaps
    \/ SetRoot \/ SetStat \/ SetStatm \/ GetCmdline \/ GetLoginuser

SpecSnapshot == InitSnapshot /\ [][NextSnapshot]_vars

(***************************************************************************)
(* Properties of the snapshot                                              *)
(***************************************************************************)
InitOrder ==
    <<"args", "environ", "fds", "limits", "loginuid", "maps", "root", "stat", "statm">>

\* What a read reported: absence (no such file, permission denied) or a failure of
\* another kind.  The fd table is read by one listdir and one readlink per name.
Reported(answer) ==
    IF "links" \in DOMAIN answer
    THEN {answer.errno} \cup {answer.links[i].errno : i \in 1..Len(answer.links)}
    ELSE {answer.errno}
ReportedAbsent(answer) == Reported(answer) \cap {"ENOENT", "EACCES"} # {}
ReportedFailure(answer) == Reported(answer) \ {"OK", "ENOENT", "EACCES"} # {}

\* C1: Process(pid) makes the nine reads args, environ, fds, limits, loginuid,
\* maps, root, stat, statm once each, in that order; whatever each read finds
\* among readable / no such file / permission denied, and however that changes
\* from one read to the next, construction goes on to the end without raising
\* (it raises only on a failure of another kind), and each attribute is None
\* exactly when its own read reported absence, whatever the other reads found.
C1_FieldAbsentIffOwnReadAbsent ==
    /\ Len(reads) <= Len(InitOrder)
    /\ \A i \in 1..Len(reads) : reads[i].attr = InitOrder[i]
    /\ pc = "done" => Len(reads) = Len(InitOrder)
    /\ pc = "raised" => ReportedFailure(reads[Len(reads)].answer)
    /\ pc \notin {"done", "raised"} => pc = InitOrder[Len(reads) + 1]
    /\ \A i \in 1..Len(reads) :
          ~ReportedFailure(reads[i].answer) =>
              /\ pc = "raised" => i < Len(reads)
              /\ reads[i].attr \in DOMAIN process
              /\ IsNone(process[reads[i].attr]) <=> ReportedAbsent(reads[i].answer)

\* C1 witness: a process that lost environ to permissions, was read, and vanished
\* before statm
C1_Witness ==
    /\ pc = "done"
    /\ reads[2].answer.errno = "EACCES" /\ IsNone(process.environ)
    /\ reads[8].answer.errno = "OK" /\ process.stat.rss = PyInt(28672)
    /\ reads[9].answer.errno = "ENOENT" /\ IsNone(process.statm)
    /\ process.args = PyList(<<"cat", "/etc/my file">>)

\* C3 (as claimed): on every object __init__ returns, also one whose loginuid or
\* args is None, the derived properties never fail: loginuser is the user's name,
\* or 'N/A' whenever the id cannot be resolved, and cmdline is the arguments
\* joined by single spaces.
C3_DerivedPropertiesNeverFail ==
    /\ derived.name = "cmdline" =>
          /\ IsOk(derived.ret)
          /\ "list" \in DOMAIN process.args =>
                derived.ret = Ok(Join(" ", process.args.list))
    /\ derived.name = "loginuser" =>
          derived.ret =
              Ok(IF "int" \in DOMAIN process.loginuid
                    /\ process.loginuid.int \in DOMAIN passwd
                 THEN passwd[process.loginuid.int]
                 ELSE "N/A")

(***************************************************************************)
(* Process._fds beside the process it scans.  The process goes on opening  *)
(* and closing descriptors, may exit, may become inaccessible, and /proc   *)
(* may fail, at any point of the scan.                                     *)
(***************************************************************************)
MaxFds == 2

FdNames == {DecStr(i) : i \in 0..(MaxFds - 1)}
FdTargets == {"/dev/null", "socket:[77]"}
FdTables == UNION {[open -> FdTargets] : open \in SUBSET FdNames}

\* What the system calls of _fds answer for a process in a given state
StateErrno(state) ==
    CASE state = "running" -> "OK"
      [] state = "exited" -> "ENOENT"
      [] state = "denied" -> "EACCES"
      [] state = "broken" -> "EIO"

os_listdir_fd(env) ==
    [errno |-> StateErrno(env.state),
     names |-> IF env.state = "running" THEN DOMAIN env.table ELSE {}]

os_readlink_fd(env, fd) ==
    IF env.state # "running" THEN FdLink(fd, StateErrno(env.state), "")
    ELSE IF fd \in DOMAIN env.table THEN FdLink(fd, "OK", env.table[fd])
    ELSE FdLink(fd, "ENOENT", "")

InitFds ==
    /\ fdenv \in [state : {"running", "exited", "denied", "broken"}, table : FdTables]
    /\ scan = [pc |-> "listdir", errno |-> "", listed |-> {}, todo |-> {}, links |-> <<>>]
    /\ fdsret = None
    /\ DecodeIdle /\ RODictIdle /\ ParseIdle /\ SnapIdle /\ ListIdle

\* for fd in os.listdir(self.pid_path('fd')): the listing is taken once
FdsListdir ==
    /\ scan.pc = "listdir"
    /\ LET ls == os_listdir_fd(fdenv)
       IN  IF ls.errno # "OK" \/ ls.names = {}
           THEN /\ scan' = [scan EXCEPT !.pc = "done", !.errno = ls.errno]
                /\ fdsret' = Process__fds(FdDir(ls.errno, <<>>))
           ELSE /\ scan' = [scan EXCEPT !.pc = "readlink", !.errno = ls.errno,
                                        !.listed = ls.names, !.todo = ls.names]
                /\ UNCHANGED fdsret
    /\ UNCHANGED <<fdenv, decodeVars, rodictVars, parseVars, snapVars, listVars>>

\* fds[fd] = os.readlink(self.pid_path('fd', fd)), for the next name of the
\* listing (listdir gives the names in no particular order); the first readlink
\* that fails ends the loop in the except clause.
FdsReadlink ==
    /\ scan.pc = "readlink"
    /\ \E fd \in scan.todo :
          LET link == os_readlink_fd(fdenv, fd)
              links == Append(scan.links, link)
              last == link.errno # "OK" \/ scan.todo = {fd}
          IN  /\ scan' = [scan EXCEPT !.pc = IF last THEN "done" ELSE "readlink",
                                      !.todo = scan.todo \ {fd},
                                      !.links = links]
              /\ fdsret' = IF last THEN Process__fds(FdDir("OK", links)) ELSE fdsret
    /\ UNCHANGED <<fdenv, decodeVars, rodictVars, parseVars, snapVars, listVars>>

ProcCloses ==
    /\ scan.pc # "done" /\ fdenv.state = "running"
    /\ \E fd \in DOMAIN fdenv.table :
          fdenv' = [fdenv EXCEPT !.table = [x \in DOMAIN fdenv.table \ {fd} |->
                                               fdenv.table[x]]]
    /\ UNCHANGED <<scan, fdsret, decodeVars, rodictVars, parseVars, snapVars, listVars>>

ProcOpens ==
    /\ scan.pc # "done" /\ fdenv.state = "running"
    /\ \E fd \in FdNames, target \in FdTargets :
          fdenv' = [fdenv EXCEPT !.table = DictSet(fdenv.table, fd, target)]
    /\ UNCHANGED <<scan, fdsret, decodeVars, rodictVars, parseVars, snapVars, listVars>>

ProcExits ==
    /\ scan.pc # "done" /\ fdenv.state \in {"running", "denied"}
    /\ fdenv' = [state |-> "exited", table |-> EmptyDict]
    /\ UNCHANGED <<scan, fdsret, decodeVars, rodictVars, parseVars, snapVars, listVars>>

\* a change of credentials takes the process out of the caller's reach
ProcDenied ==
    /\ scan.pc # "done" /\ fdenv.state = "running"
    /\ fdenv' = [fdenv EXCEPT !.state = "denied"]
    /\ UNCHANGED <<scan, fdsret, decodeVars, rodictVars, parseVars, snapVars, listVars>>

ProcfsFails ==
    /\ scan.pc # "done" /\ fdenv.state = "running"
    /\ fdenv' = [fdenv EXCEPT !.state = "broken"]
    /\ UNCHANGED <<scan, fdsret, decodeVars, rodictVars, parseVars, snapVars, listVars>>

NextFds ==
    \/ FdsListdir \/ FdsReadlink
    \/ ProcCloses \/ ProcOpens \/ ProcExits \/ ProcDenied \/ ProcfsFails

SpecFds == InitFds /\ [][NextFds]_vars

\* C10: whatever the scanned process does during the scan, _fds ends in one of
\* three ways: None; a read-only table with a resolved target for every name the
\* listing returned; or an exception.  A name whose link is gone or unreadable
\* when it is resolved makes the whole result None, never a table without that
\* name, and a failure other than absence or permission denial is raised.
C10_FdTableAllOrNothing ==
    scan.pc = "done" =>
        LET answers == {scan.errno} \cup {scan.links[i].errno : i \in 1..Len(scan.links)}
        IN  /\ answers \cap {"ENOENT", "EACCES"} # {} => fdsret = Ok(None)
            /\ answers \ {"OK", "ENOENT", "EACCES"} # {} => IsRaise(fdsret)
            /\ answers = {"OK"} =>
                  /\ IsOk(fdsret) /\ "rodict" \in DOMAIN fdsret.ok
                  /\ DOMAIN fdsret.ok.rodict = scan.listed
                  /\ \A i \in 1..Len(scan.links) :
                        fdsret.ok.rodict[scan.links[i].fd] = scan.links[i].target
            /\ IsOk(fdsret) /\ "rodict" \in DOMAIN fdsret.ok =>
                  DOMAIN fdsret.ok.rodict = scan.listed

\* C10 witness: two names listed, the first resolved, the second closed before
\* its turn: the result is None
C10_Witness ==
    /\ scan.pc = "done"
    /\ Cardinality(scan.listed) = 2 /\ Len(scan.links) = 2
    /\ scan.links[1].errno = "OK" /\ scan.links[2].errno = "ENOENT"
    /\ fdenv.state = "running"
    /\ fdsret = Ok(None)

(***************************************************************************)
(* Process.list(uid=None, username=None)                                   *)
(***************************************************************************)
MaxPids == 2

False == [bool |-> FALSE]

\* a == b on Python numbers: bool is a subclass of int, False being 0 and True 1
NumberOf(v) == IF "int" \in DOMAIN v THEN v.int ELSE IF v.bool THEN 1 ELSE 0
PyEq(a, b) == NumberOf(a) = NumberOf(b)

\* pwd.getpwnam(username).pw_uid
pwd_getpwnam(username) ==
    IF \E uid \in DOMAIN passwd : passwd[uid] = username
    THEN Ok(CHOOSE uid \in DOMAIN passwd : passwd[uid] = username)
    ELSE Raise("KeyError")

\* dir.isdigit()
isdigit(name) == name # "" /\ \A i \in 1..Len(name) : IsDecDigit(Char(name, i))

\* The first statements of list: a username replaces the uid, by the uid it
\* resolves to or, on KeyError, by False.
list_uid(uid, username) ==
    IF username # None
    THEN LET pw == pwd_getpwnam(username.str)
         IN  IF IsOk(pw) THEN PyInt(pw.ok) ELSE False
    ELSE uid

\* Whether the loop body appends the entry: stat is the st_uid that os.stat
\* answered (asked only when a uid is given)
list_keeps(name, uid, st_uid) ==
    isdigit(name) /\ (uid # None => PyEq(PyInt(st_uid), uid))

PidNames == {DecStr(i) : i \in 1..MaxPids}
OtherNames == {"self", "cpuinfo"}
Owners == {0, 500}

InitList ==
    /\ listArgs \in [uid : {None, PyInt(0), PyInt(500), PyInt(1001)},
                     username : {None, PyStr("root"), PyStr("alice"), PyStr("nosuch")}]
    /\ procdir \in {[n \in PidNames \cup OtherNames |->
                        IF n \in PidNames THEN owner[n] ELSE 0] :
                    owner \in [PidNames -> Owners]}
    /\ listing = [pc |-> "resolve", uid |-> None, listed |-> {}, todo |-> {},
                  stats |-> EmptyDict, processes |-> <<>>]
    /\ listRet = None
    /\ DecodeIdle /\ RODictIdle /\ ParseIdle /\ SnapIdle /\ FdsIdle

ListResolve ==
    /\ listing.pc = "resolve"
    /\ listing' = [listing EXCEPT !.pc = "listdir",
                                  !.uid = list_uid(listArgs.uid, listArgs.username)]
    /\ UNCHANGED <<listArgs, procdir, listRet,
                   decodeVars, rodictVars, parseVars, snapVars, fdsVars>>

\* os.listdir(PROCDIR): taken once, the names in no particular order
ListListdir ==
    /\ listing.pc = "listdir"
    /\ listing' = [listing EXCEPT !.pc = "loop", !.listed = DOMAIN procdir,
                                  !.todo = DOMAIN procdir]
    /\ UNCHANGED <<listArgs, procdir, listRet,
                   decodeVars, rodictVars, parseVars, snapVars, fdsVars>>

\* One turn of the loop.  os.stat of an entry that is gone raises OSError, which
\* list does not catch.  Process(int(dir)) is the constructor modelled above; the
\* object is held here by its pid.
ListLoop ==
    /\ listing.pc = "loop" /\ listing.todo # {}
    /\ \E dir \in listing.todo :
          IF isdigit(dir) /\ listing.uid # None /\ dir \notin DOMAIN procdir
          THEN /\ listing' = [listing EXCEPT !.pc = "raised"]
               /\ listRet' = Raise("OSError ENOENT")
          ELSE /\ listing' =
                    [listing EXCEPT
                        !.todo = listing.todo \ {dir},
                        !.stats = IF isdigit(dir) /\ listing.uid # None
                                  THEN DictSet(listing.stats, dir, procdir[dir])
                                  ELSE listing.stats,
                        !.processes =
                            IF list_keeps(dir, listing.uid,
                                          IF dir \in DOMAIN procdir THEN procdir[dir] ELSE 0)
                            THEN Append(listing.processes, [pid |-> IntBase10(dir).ok])
                            ELSE listing.processes]
               /\ UNCHANGED listRet
    /\ UNCHANGED <<listArgs, procdir, decodeVars, rodictVars, parseVars, snapVars, fdsVars>>

ListReturn ==
    /\ listing.pc = "loop" /\ listing.todo = {}
    /\ listing' = [listing EXCEPT !.pc = "returned"]
    /\ listRet' = Ok(PyList(listing.processes))
    /\ UNCHANGED <<listArgs, procdir, decodeVars, rodictVars, parseVars, snapVars, fdsVars>>

\* a process of the listing exits while list runs
ListedProcessExits ==
    /\ listing.pc \in {"resolve", "listdir", "loop"}
    /\ \E n \in DOMAIN procdir \cap PidNames :
          procdir' = [x \in DOMAIN procdir \ {n} |-> procdir[x]]
    /\ UNCHANGED <<listArgs, listing, listRet,
                   decodeVars, rodictVars, parseVars, snapVars, fdsVars>>

NextList == ListResolve \/ ListListdir \/ ListLoop \/ ListReturn \/ ListedProcessExits

SpecList == InitList /\ [][NextList]_vars

Returned == {listRet.ok.list[i].pid : i \in 1..Len(listRet.ok.list)}
PidOf(name) == IntBase10(name).ok
ListedPids == {n \in listing.listed : isdigit(n)}

\* C5 (as claimed): list with an owner filter returns only processes whose
\* directory owner matches: with uid=u every returned directory has st_uid = u;
\* with a username every returned process is owned by the user the name resolves
\* to, so a name that resolves to no user returns nothing; with no filter every
\* all-digit entry of /proc is returned.
C5_ListReturnsOnlyOwned ==
    listing.pc = "returned" =>
        /\ (listArgs.username = None /\ listArgs.uid # None) =>
              \A n \in ListedPids :
                  PidOf(n) \in Returned =>
                      n \in DOMAIN listing.stats /\ listing.stats[n] = listArgs.uid.int
        /\ listArgs.username # None =>
              IF \E u \in DOMAIN passwd : passwd[u] = listArgs.username.str
              THEN \A n \in ListedPids :
                      PidOf(n) \in Returned =>
                          /\ n \in DOMAIN listing.stats
                          /\ passwd[listing.stats[n]] = listArgs.username.str
              ELSE listRet = Ok(PyList(<<>>))
        /\ (listArgs.username = None /\ listArgs.uid = None) =>
              Returned = {PidOf(n) : n \in ListedPids}

=============================================================================
